---- MODULE Spec2Model ----
(***************************************************************************)
(* The course store of the learning platform (Course, Chapter, Purchase    *)
(* and UserProgress tables of the Prisma schema) and the four operations   *)
(* the README implements on it: createCourse, reorderChapters,             *)
(* trackProgress and calculateCourseProgress.                              *)
(*                                                                         *)
(* Columns no operation reads (titles, urls, timestamps, the surrogate     *)
(* uuid of a UserProgress or Purchase row) are left out; a UserProgress    *)
(* row is the triple (userId, chapterId, isCompleted) and the table is a   *)
(* bag of such rows, so that duplicate rows can be told from one row.      *)
(* trackProgress addresses the table as prisma.chapterProgress; the only   *)
(* table of the schema with the compound key userId_chapterId is           *)
(* UserProgress, which is also what calculateCourseProgress reads.         *)
(***************************************************************************)
EXTENDS Integers, Sequences, FiniteSets

VARIABLES
  courses,       \* ids of the Course rows
  chapters,      \* Chapter rows: chapter id -> [courseId, position, isPublished, isFree]
  purchases,     \* Purchase rows: set of <<userId, courseId>>
  userProgress,  \* UserProgress rows: [userId, chapterId, isCompleted] -> number of copies
  pending,       \* upserts between their SELECT and their INSERT/UPDATE
  txn,           \* the $transaction of a running reorderChapters
  result         \* outcome of the last completed call

vars == <<courses, chapters, purchases, userProgress, pending, txn, result>>

----------------------------------------------------------------------------
(* Bounds of the model *)

\* chapters one createCourse call may carry
MaxNewChapters == 3
\* statements in one reorderChapters batch
MaxBatch == 2
\* upserts that may be between their two statements at once
MaxInflight == 2

Users == {"u1", "u2"}
Courses == {"c1", "c2"}
ChapterIds == 1..3
\* the chapters the interleaved completion toggles are about
TrackedChapters == 1..2
Positions == 0..1

----------------------------------------------------------------------------
(* Values *)

NaN == [num |-> 0, den |-> 0]
Infinity == [num |-> 1, den |-> 0]

NoTxn == [active |-> FALSE, courseId |-> "none", updateData |-> << >>, i |-> 0]

RECURSIVE Gcd(_, _)
Gcd(a, b) == IF b = 0 THEN a ELSE Gcd(b, a % b)

\* a / b for array lengths a, b (non-negative integers), as JavaScript's number
\* division has it: 0/0 is NaN, a/0 is Infinity, otherwise the quotient, kept
\* exactly as a fraction in lowest terms (the rounding of a double is left out)
Divide(a, b) ==
  IF b = 0 THEN (IF a = 0 THEN NaN ELSE Infinity)
  ELSE LET g == Gcd(a, b) IN [num |-> a \div g, den |-> b \div g]

\* x * n for n > 0: NaN and Infinity stay what they are
Times(x, n) ==
  IF x.den = 0 THEN x
  ELSE LET g == Gcd(x.num * n, x.den) IN [num |-> (x.num * n) \div g, den |-> x.den \div g]

----------------------------------------------------------------------------
(* The UserProgress table *)

ProgressRow(u, ch, f) == [userId |-> u, chapterId |-> ch, isCompleted |-> f]

Copies(prog, row) == IF row \in DOMAIN prog THEN prog[row] ELSE 0

\* number of rows with the key (userId, chapterId)
RowsFor(prog, u, ch) ==
  Copies(prog, ProgressRow(u, ch, TRUE)) + Copies(prog, ProgressRow(u, ch, FALSE))

\* INSERT INTO UserProgress
InsertRow(prog, row) ==
  [r \in DOMAIN prog \cup {row} |-> Copies(prog, r) + (IF r = row THEN 1 ELSE 0)]

\* faulty variant: the UPDATE without the userId of its WHERE: every user's row of the chapter
UpdateRowsOfChapter(prog, u, ch, f) ==
  LET hit == {r \in DOMAIN prog : r.chapterId = ch}
      users == {r.userId : r \in hit}
      others == DOMAIN prog \ hit
      new == {[userId |-> v, chapterId |-> ch, isCompleted |-> f] : v \in users}
  IN [r \in others \cup new |->
        IF r \in new
          THEN (IF [r EXCEPT !.isCompleted = TRUE] \in DOMAIN prog
                  THEN prog[[r EXCEPT !.isCompleted = TRUE]] ELSE 0)
             + (IF [r EXCEPT !.isCompleted = FALSE] \in DOMAIN prog
                  THEN prog[[r EXCEPT !.isCompleted = FALSE]] ELSE 0)
        ELSE prog[r]]

\* UPDATE UserProgress SET isCompleted = f WHERE userId = u AND chapterId = ch
UpdateRows(prog, u, ch, f) ==
  LET n == RowsFor(prog, u, ch)
      others == {r \in DOMAIN prog : ~(r.userId = u /\ r.chapterId = ch)}
      keep == IF n > 0 THEN others \cup {ProgressRow(u, ch, f)} ELSE others
  IN [r \in keep |-> IF r = ProgressRow(u, ch, f) THEN n ELSE prog[r]]

\* faulty variant: a table without the unique index
NoUniqueIndex(prog, u, ch) == FALSE

\* @@unique([userId, chapterId]): the store refuses a second row for a key
UniqueViolation(prog, u, ch) == RowsFor(prog, u, ch) > 0

\* the SELECT of an upsert: is there a row for the key
UpsertFind(prog, u, ch) == RowsFor(prog, u, ch) > 0

\* the second statement of an upsert whose SELECT answered `found`: UPDATE when
\* the row was found, INSERT otherwise. fk: the store enforces the foreign key
\* UserProgress.chapterId -> Chapter.id (relationMode "foreignKeys"); a store
\* without foreign keys (PlanetScale, relationMode "prisma") does not.
UpsertWrite(prog, chs, u, ch, f, found, fk) ==
  IF found
    THEN [userProgress |-> UpdateRows(prog, u, ch, f), status |-> "ok"]
  ELSE IF UniqueViolation(prog, u, ch)
    THEN [userProgress |-> prog, status |-> "P2002"]
  ELSE IF fk /\ ch \notin DOMAIN chs
    THEN [userProgress |-> prog, status |-> "P2003"]
  ELSE [userProgress |-> InsertRow(prog, ProgressRow(u, ch, f)), status |-> "ok"]

\* faulty variant: an upsert that always creates
CreateAlways(prog, chs, u, ch, f, fk) ==
  [userProgress |-> InsertRow(prog, ProgressRow(u, ch, f)), status |-> "ok"]

\* prisma.chapterProgress.upsert(...) with nothing between its two statements
Upsert(prog, chs, u, ch, f, fk) ==
  UpsertWrite(prog, chs, u, ch, f, UpsertFind(prog, u, ch), fk)

----------------------------------------------------------------------------
(* calculateCourseProgress *)

\* faulty variant: the query without isPublished: true
ChaptersOfCourse(chs, c) == {ch \in DOMAIN chs : chs[ch].courseId = c}

\* prisma.chapter.findMany({ where: { courseId, isPublished: true } })
PublishedChapters(chs, c) ==
  {ch \in DOMAIN chs : chs[ch].courseId = c /\ chs[ch].isPublished}

\* include: { userProgress: { where: { userId } } }
IncludedProgress(prog, u, ch) ==
  {r \in DOMAIN prog : r.chapterId = ch /\ r.userId = u}

\* chapters.filter(chapter => chapter.userProgress.some(p => p.isCompleted))
CompletedChapters(chs, prog, u, c) ==
  {ch \in PublishedChapters(chs, c) :
     \E r \in IncludedProgress(prog, u, ch) : r.isCompleted}

calculateCourseProgress(chs, prog, u, c) ==
  Times(Divide(Cardinality(CompletedChapters(chs, prog, u, c)),
               Cardinality(PublishedChapters(chs, c))), 100)

----------------------------------------------------------------------------
(* The tables: what the schema allows a state to hold *)

TypeOK ==
  /\ courses \subseteq Courses
  /\ DOMAIN chapters \subseteq ChapterIds
  /\ \A id \in DOMAIN chapters :
       /\ chapters[id].courseId \in courses
       /\ chapters[id].position \in Nat
       /\ chapters[id].isPublished \in BOOLEAN
       /\ chapters[id].isFree \in BOOLEAN
  /\ purchases \subseteq Users \X courses
  /\ \A r \in DOMAIN userProgress :
       /\ r.userId \in Users
       /\ r.chapterId \in ChapterIds
       /\ r.isCompleted \in BOOLEAN
       /\ userProgress[r] \in Nat \ {0}
  /\ \A req \in pending :
       /\ req.userId \in Users
       /\ req.chapterId \in ChapterIds
       /\ req.isCompleted \in BOOLEAN
       /\ req.found \in BOOLEAN
  /\ txn.active \in BOOLEAN
  /\ txn.courseId \in Courses \cup {"none"}
  /\ txn.i \in 0..Len(txn.updateData)
  /\ result \in {"none", "ok", "P2002", "P2003", "P2025", "StoreUnavailable"}

----------------------------------------------------------------------------
(* Initial state: the store after `prisma db push`, every table empty *)

Init ==
  /\ courses = {}
  /\ chapters = << >>
  /\ purchases = {}
  /\ userProgress = << >>
  /\ pending = {}
  /\ txn = NoTxn
  /\ result = "none"

----------------------------------------------------------------------------
(* createCourse *)

\* The n new Chapter rows of course c: fresh ids (the lowest unused ones stand
\* for the uuids), position = index in data.chapters, both flags at their
\* schema default false.
NewChapters(chs, c, n) ==
  LET k == Cardinality(DOMAIN chs)
  IN [id \in (k + 1)..(k + n) |->
        [courseId |-> c, position |-> id - (k + 1),
         isPublished |-> FALSE, isFree |-> FALSE]]

createCourse(c, n) ==
  /\ c \notin courses
  /\ Cardinality(DOMAIN chapters) + n <= Cardinality(ChapterIds)
  /\ courses' = courses \cup {c}
  /\ chapters' = [id \in DOMAIN chapters \cup DOMAIN NewChapters(chapters, c, n) |->
                    IF id \in DOMAIN chapters THEN chapters[id]
                    ELSE NewChapters(chapters, c, n)[id]]
  /\ result' = "ok"
  /\ UNCHANGED <<purchases, userProgress, pending, txn>>

----------------------------------------------------------------------------
(* Writes of the rest of the application to the columns and tables the      *)
(* operations below read                                                    *)

\* the teacher's publish / unpublish of a chapter
setPublished(ch, b) ==
  /\ ch \in DOMAIN chapters
  /\ chapters[ch].isPublished # b
  /\ chapters' = [chapters EXCEPT ![ch].isPublished = b]
  /\ result' = "ok"
  /\ UNCHANGED <<courses, purchases, userProgress, pending, txn>>

\* the teacher's marking of a chapter as free preview or not
setFree(ch, b) ==
  /\ ch \in DOMAIN chapters
  /\ chapters[ch].isFree # b
  /\ chapters' = [chapters EXCEPT ![ch].isFree = b]
  /\ result' = "ok"
  /\ UNCHANGED <<courses, purchases, userProgress, pending, txn>>

\* a completed checkout: the Purchase row of (user, course), at most one per pair
createPurchase(u, c) ==
  /\ c \in courses
  /\ <<u, c>> \notin purchases
  /\ purchases' = purchases \cup {<<u, c>>}
  /\ result' = "ok"
  /\ UNCHANGED <<courses, chapters, userProgress, pending, txn>>

----------------------------------------------------------------------------
(* trackProgress *)

\* The whole call with no other call between its two statements.
trackProgress(u, ch, f) ==
  \E fk \in BOOLEAN :
    LET w == Upsert(userProgress, chapters, u, ch, f, fk)
    IN /\ userProgress' = w.userProgress
       /\ result' = w.status
       /\ UNCHANGED <<courses, chapters, purchases, pending, txn>>

\* The call up to the answer of the upsert's SELECT.
trackProgressFind(u, ch, f) ==
  /\ Cardinality(pending) < MaxInflight
  /\ pending' = pending \cup
       {[userId |-> u, chapterId |-> ch, isCompleted |-> f,
         found |-> UpsertFind(userProgress, u, ch)]}
  /\ pending' # pending
  /\ UNCHANGED <<courses, chapters, purchases, userProgress, txn, result>>

\* The rest of the call: the upsert's INSERT or UPDATE, and the return.
trackProgressWrite(req) ==
  /\ req \in pending
  /\ pending' = pending \ {req}
  /\ UNCHANGED <<courses, chapters, purchases, txn>>
  /\ \E fk \in BOOLEAN :
       LET w == UpsertWrite(userProgress, chapters, req.userId, req.chapterId,
                            req.isCompleted, req.found, fk)
       IN /\ userProgress' = w.userProgress
          /\ result' = w.status

----------------------------------------------------------------------------
(* reorderChapters *)

UpdateDatas ==
  UNION {[1..n -> [id : ChapterIds, position : Positions]] : n \in 0..MaxBatch}

\* prisma.chapter.update({ where: { id }, data: { position } }) on the rows chs
ChapterUpdate(chs, stmt) ==
  [chs EXCEPT ![stmt.id].position = stmt.position]

\* the first n statements of the batch, in order
RECURSIVE ApplyUpdates(_, _, _)
ApplyUpdates(chs, updateData, n) ==
  IF n = 0 THEN chs
  ELSE ChapterUpdate(ApplyUpdates(chs, updateData, n - 1), updateData[n])

\* faulty variant: the statements run outside a transaction: each is visible at once
VisibleAtOnce(chs, updateData, n) ==
  IF n = 0 THEN chs ELSE ChapterUpdate(chs, updateData[n])

\* What other calls see of the Chapter table while the transaction has run n of
\* its statements: nothing of them before the commit.
VisibleInTransaction(chs, updateData, n) == chs

\* const transaction = updateData.map(...); prisma.$transaction(transaction) begins
reorderChapters(c, updateData) ==
  /\ ~txn.active
  /\ txn' = [active |-> TRUE, courseId |-> c, updateData |-> updateData, i |-> 0]
  /\ UNCHANGED <<courses, chapters, purchases, userProgress, pending, result>>

\* the next statement of the batch runs inside the transaction; an update of a
\* row that does not exist throws (P2025) and the transaction is rolled back
transactionStep ==
  /\ txn.active
  /\ txn.i < Len(txn.updateData)
  /\ IF txn.updateData[txn.i + 1].id \in DOMAIN chapters
       THEN /\ txn' = [txn EXCEPT !.i = txn.i + 1]
            /\ chapters' = VisibleInTransaction(chapters, txn.updateData, txn.i + 1)
            /\ UNCHANGED result
       ELSE /\ txn' = NoTxn
            /\ chapters' = VisibleInTransaction(chapters, txn.updateData, 0)
            /\ result' = "P2025"
  /\ UNCHANGED <<courses, purchases, userProgress, pending>>

\* the store fails while the transaction is open: rollback
transactionFail ==
  /\ txn.active
  /\ txn' = NoTxn
  /\ chapters' = VisibleInTransaction(chapters, txn.updateData, 0)
  /\ result' = "StoreUnavailable"
  /\ UNCHANGED <<courses, purchases, userProgress, pending>>

\* every statement has run: commit
transactionCommit ==
  /\ txn.active
  /\ txn.i = Len(txn.updateData)
  /\ chapters' = ApplyUpdates(chapters, txn.updateData, txn.i)
  /\ txn' = NoTxn
  /\ result' = "ok"
  /\ UNCHANGED <<courses, purchases, userProgress, pending>>

----------------------------------------------------------------------------
(* Specifications.  Spec is the whole system.  Its state space is the       *)
(* product of those of the four parts below, which share only the Chapter   *)
(* table; each part is the system restricted to the calls one group of      *)
(* properties is about.                                                     *)

Next ==
  \/ \E c \in Courses, n \in 0..MaxNewChapters : createCourse(c, n)
  \/ \E ch \in ChapterIds, b \in BOOLEAN : setPublished(ch, b)
  \/ \E ch \in ChapterIds, b \in BOOLEAN : setFree(ch, b)
  \/ \E u \in Users, c \in Courses : createPurchase(u, c)
  \/ \E u \in Users, ch \in ChapterIds, f \in BOOLEAN : trackProgress(u, ch, f)
  \/ \E u \in Users, ch \in ChapterIds, f \in BOOLEAN : trackProgressFind(u, ch, f)
  \/ \E req \in pending : trackProgressWrite(req)
  \/ \E c \in Courses, updateData \in UpdateDatas : reorderChapters(c, updateData)
  \/ transactionStep
  \/ transactionFail
  \/ transactionCommit

Spec == Init /\ [][Next]_vars

\* courses, publication and sequential completion toggles: what
\* calculateCourseProgress reads
NextProgress ==
  \/ \E c \in Courses, n \in 0..MaxNewChapters : createCourse(c, n)
  \/ \E ch \in ChapterIds, b \in BOOLEAN : setPublished(ch, b)
  \/ \E u \in Users, ch \in ChapterIds, f \in BOOLEAN : trackProgress(u, ch, f)

SpecProgress == Init /\ [][NextProgress]_vars

\* completion toggles of one course, interleaved statement by statement
NextUpsert ==
  \/ \E n \in 0..MaxNewChapters : createCourse("c1", n)
  \/ \E u \in Users, ch \in TrackedChapters, f \in BOOLEAN : trackProgressFind(u, ch, f)
  \/ \E req \in pending : trackProgressWrite(req)

SpecUpsert == Init /\ [][NextUpsert]_vars

\* completion toggles of one course with purchases and free previews
NextAccess ==
  \/ \E n \in 0..MaxNewChapters : createCourse("c1", n)
  \/ \E ch \in ChapterIds, b \in BOOLEAN : setFree(ch, b)
  \/ \E u \in Users : createPurchase(u, "c1")
  \/ \E u \in Users, ch \in ChapterIds, f \in BOOLEAN : trackProgress(u, ch, f)

SpecAccess == Init /\ [][NextAccess]_vars

\* courses and the reordering of their chapters
NextReorder ==
  \/ \E c \in Courses, n \in 0..MaxNewChapters : createCourse(c, n)
  \/ \E c \in Courses, updateData \in UpdateDatas : reorderChapters(c, updateData)
  \/ transactionStep
  \/ transactionFail
  \/ transactionCommit

SpecReorder == Init /\ [][NextReorder]_vars

----------------------------------------------------------------------------
(* Properties *)

\* N: the published chapters of course c
PublishedCount(c) ==
  Cardinality({ch \in DOMAIN chapters :
                 chapters[ch].courseId = c /\ chapters[ch].isPublished = TRUE})

\* k: the published chapters of course c for which user u has a row with isCompleted = true
CompletedCount(u, c) ==
  Cardinality({ch \in DOMAIN chapters :
                 /\ chapters[ch].courseId = c
                 /\ chapters[ch].isPublished = TRUE
                 /\ ProgressRow(u, ch, TRUE) \in DOMAIN userProgress})

Progress(u, c) == calculateCourseProgress(chapters, userProgress, u, c)

\* C1: for every user U and course C with N > 0 published chapters, of which U
\* has completed k, calculateCourseProgress(U, C) is the number 100*k/N;
\* unpublished chapters and rows with isCompleted = false count in neither.
C1_ProgressIsPercentage ==
  \A u \in Users, c \in Courses :
    PublishedCount(c) > 0 =>
      /\ Progress(u, c).den > 0
      /\ Progress(u, c).num * PublishedCount(c)
           = 100 * CompletedCount(u, c) * Progress(u, c).den

\* C1 witness: rows {chapter a: true, chapter b: false}, a and b published, a
\* third chapter of the course unpublished, and the progress is 50
C1_Witness ==
  \E u \in Users, c \in Courses :
    \E a, b, d \in DOMAIN chapters :
      /\ chapters[a].courseId = c /\ chapters[b].courseId = c /\ chapters[d].courseId = c
      /\ chapters[a].isPublished /\ chapters[b].isPublished /\ ~chapters[d].isPublished
      /\ ProgressRow(u, a, TRUE) \in DOMAIN userProgress
      /\ ProgressRow(u, b, FALSE) \in DOMAIN userProgress
      /\ Progress(u, c) = [num |-> 50, den |-> 1]

\* C2: for a course with zero published chapters calculateCourseProgress
\* returns a defined number or sentinel, never NaN.
C2_ZeroChaptersDefined ==
  \A u \in Users, c \in courses :
    PublishedCount(c) = 0 => Progress(u, c) # NaN

\* C3: in every reachable state there is at most one progress row for each
\* (user, chapter) pair.
C3_OneRowPerKey ==
  /\ \A r \in DOMAIN userProgress : userProgress[r] = 1
  /\ \A r1, r2 \in DOMAIN userProgress :
       (r1.userId = r2.userId /\ r1.chapterId = r2.chapterId) => r1 = r2

\* C3 witness: two calls for one key raced, the store refused the second
\* insert, and the key has its row
C3_Witness ==
  /\ result = "P2002"
  /\ \E r \in DOMAIN userProgress : userProgress[r] = 1

\* C4: from every reachable state, a successful trackProgress(u, ch, f)
\* followed at once by the same call leaves the rows exactly as the first call
\* left them, with exactly one row for (u, ch), carrying f.
C4_Idempotent ==
  \A u \in Users, ch \in ChapterIds, f \in BOOLEAN, fk \in BOOLEAN :
    LET first == Upsert(userProgress, chapters, u, ch, f, fk)
        second == Upsert(first.userProgress, chapters, u, ch, f, fk)
    IN first.status = "ok" =>
         /\ second.status = "ok"
         /\ second.userProgress = first.userProgress
         /\ ProgressRow(u, ch, f) \in DOMAIN first.userProgress
         /\ first.userProgress[ProgressRow(u, ch, f)] = 1
         /\ ProgressRow(u, ch, ~f) \notin DOMAIN first.userProgress

\* C4 witness: a call has just succeeded, on a key whose row had the other flag
\* or none before, and the same call again changes nothing
C4_Witness ==
  /\ result = "ok"
  /\ \E r \in DOMAIN userProgress :
       /\ \E r2 \in DOMAIN userProgress : r2.userId = r.userId /\ r2.chapterId # r.chapterId
       /\ \A fk \in BOOLEAN :
            Upsert(userProgress, chapters, r.userId, r.chapterId, r.isCompleted, fk)
              = [userProgress |-> userProgress, status |-> "ok"]

\* C9: a successful trackProgress(user, chapter, flag) changes only the rows
\* keyed (user, chapter): every other progress row, every chapter, course and
\* purchase is unchanged, and afterwards the key has one row, carrying flag.
C9_OnlyThatRecord ==
  [][\A req \in pending :
       (trackProgressWrite(req) /\ result' = "ok") =>
         /\ \A u \in Users, ch \in ChapterIds, f \in BOOLEAN :
              (u # req.userId \/ ch # req.chapterId) =>
                Copies(userProgress', ProgressRow(u, ch, f))
                  = Copies(userProgress, ProgressRow(u, ch, f))
         /\ chapters' = chapters
         /\ courses' = courses
         /\ purchases' = purchases
         /\ Copies(userProgress', ProgressRow(req.userId, req.chapterId, req.isCompleted)) = 1
         /\ Copies(userProgress', ProgressRow(req.userId, req.chapterId, ~req.isCompleted)) = 0
    ]_vars

\* C9 witness: a call succeeded while another user has a row for the same
\* chapter with the other flag
C9_Witness ==
  /\ result = "ok"
  /\ \E r1, r2 \in DOMAIN userProgress :
       /\ r1.userId # r2.userId
       /\ r1.chapterId = r2.chapterId
       /\ r1.isCompleted # r2.isCompleted

\* C8: trackProgress on a chapter id that references no chapter creates no
\* row: every progress row references an existing chapter.
C8_RowsReferenceChapters ==
  \A r \in DOMAIN userProgress : r.chapterId \in DOMAIN chapters

\* C7: a completion toggle by a user with no Purchase of the course, on a
\* chapter that is not free, results in Unauthorized and writes no row.
C7_UnauthorizedToggle ==
  [][\A u \in Users, ch \in ChapterIds, f \in BOOLEAN :
       ( /\ trackProgress(u, ch, f)
         /\ ch \in DOMAIN chapters
         /\ ~chapters[ch].isFree
         /\ <<u, chapters[ch].courseId>> \notin purchases ) =>
           (result' = "Unauthorized" /\ userProgress' = userProgress)
    ]_vars

\* the chapters a batch names
BatchIds(updateData) == {updateData[j].id : j \in 1..Len(updateData)}

\* the position the batch gives chapter id: that of its last statement for id
NewPosition(updateData, id) ==
  LET last == CHOOSE j \in 1..Len(updateData) :
                /\ updateData[j].id = id
                /\ \A k \in (j + 1)..Len(updateData) : updateData[k].id # id
  IN updateData[last].position

\* C5: reorderChapters applies its batch atomically: after every step taken
\* while the call runs, either every chapter of the batch has its old position
\* or the call has succeeded and every chapter of the batch has its new one;
\* a call that fails leaves every position as it was.
C5_ReorderAtomic ==
  [][txn.active =>
       /\ \/ \A id \in BatchIds(txn.updateData) \cap DOMAIN chapters :
               chapters'[id].position = chapters[id].position
          \/ /\ ~txn'.active
             /\ result' = "ok"
             /\ \A id \in BatchIds(txn.updateData) :
                  /\ id \in DOMAIN chapters'
                  /\ chapters'[id].position = NewPosition(txn.updateData, id)
       /\ (~txn'.active /\ result' # "ok") =>
            \A id \in DOMAIN chapters : chapters'[id].position = chapters[id].position
    ]_vars

\* C5 witness: a batch has committed that swapped two chapters of a course
\* (createCourse gives the lower id the lower position)
C5_Witness ==
  /\ ~txn.active
  /\ result = "ok"
  /\ \E a, b \in DOMAIN chapters :
       /\ a < b
       /\ chapters[a].courseId = chapters[b].courseId
       /\ chapters[a].position > chapters[b].position

\* C6: no two chapters of the same course have the same position.
C6_PositionsUnique ==
  \A a, b \in DOMAIN chapters :
    (a # b /\ chapters[a].courseId = chapters[b].courseId) =>
      chapters[a].position # chapters[b].position

\* C10: a reorderChapters(courseId, updateData) call leaves the position of
\* every chapter of every other course unchanged.
C10_OtherCoursesUntouched ==
  [][(txn.active /\ ~txn'.active) =>
       \A id \in DOMAIN chapters :
         chapters[id].courseId # txn.courseId =>
           chapters'[id].position = chapters[id].position
    ]_vars

====
